---- MODULE Spec2Model ----
(***************************************************************************)
(* A model of src/app/main.py: the Streamlit dashboard script.  One script *)
(* run (a "render") is a straight line of sections over the table `data`;  *)
(* every UI interaction re-runs the script from the top.  The loader is    *)
(* memoized by st.cache_data, which hands every caller its own copy of the *)
(* cached value and replays the st elements the cached call emitted.       *)
(***************************************************************************)
EXTENDS Integers, Sequences, FiniteSets, TLC

VARIABLES
    cache,         \* st.cache_data store of download_and_load_data, by (drive_url, filename)
    downloads,     \* number of gdown.download calls issued so far, per Drive file id
    dataset_name,  \* value of the sidebar selectbox (line 28)
    show_raw,      \* value of the "Show Raw Data" checkbox (line 40)
    data,          \* the module-level DataFrame `data` of the current run (line 34)
    bubble_size,   \* value of the "Bubble Size Variable" selectbox (line 113)
    out,           \* the elements the current run has put on the page, in order
    pc,            \* position of the current run in the script
    first_render,  \* per dataset name, the page of its first finished run
    pandas         \* the major version of the installed pandas (no version is pinned)

vars == <<cache, downloads, dataset_name, show_raw, data, bubble_size, out, pc, first_render, pandas>>

-----------------------------------------------------------------------------
(* Bounds of the model *)

\* rows of the generated CSV files
MaxRows == 2

\* cap on the download counter (the counter is unbounded once memoization is broken)
MaxDownloads == 2

-----------------------------------------------------------------------------
(* Cells, series and tables (pandas) *)

\* a cell of a parsed CSV: an int64 value, or text (dtype object); the files of
\* the model have no missing cells
Num(n) == [t |-> "int", n |-> n, s |-> ""]
Str(s) == [t |-> "str", n |-> 0, s |-> s]
\* a datetime64 value: the ordinal of its calendar day
Datetime(d) == [t |-> "datetime", n |-> d, s |-> ""]

\* the date texts pandas can parse, with the day each one denotes
ParseDate ==
    ("2021-08-09" :> 1) @@ ("2021-08-10" :> 2) @@ ("2021-08-11" :> 3) @@ ("2021-08-12" :> 4)

RangeIndex(n) == [name |-> "RangeIndex", values |-> [i \in 1..n |-> Num(i - 1)]]

\* pd.DataFrame(): no columns, no rows
EmptyFrame == [index |-> RangeIndex(0), cols |-> <<>>]

Columns(t) == DOMAIN t.cols

NRows(t) == Len(t.index.values)

\* DataFrame.empty: some axis has length 0
IsEmpty(t) == NRows(t) = 0 \/ Columns(t) = {}

\* the dtype read_csv infers is int64 when every cell is an integer; a column
\* without rows, or with any text cell, is dtype object
IsNumericSeries(s) == Len(s) > 0 /\ \A i \in 1..Len(s) : s[i].t = "int"

\* data.select_dtypes(include=["float64", "int64"]).columns
NumericColumns(t) == {c \in Columns(t) : IsNumericSeries(t.cols[c])}

\* pd.to_datetime(series) raises on a cell it cannot parse
ToDatetimeRaises(s) == \E i \in 1..Len(s) : s[i].t # "str" \/ s[i].s \notin DOMAIN ParseDate

ToDatetime(s) == [i \in 1..Len(s) |-> Datetime(ParseDate[s[i].s])]

\* set_index(..., drop=False): the column stays a column as well
SetIndexKeepingColumn(t, converted) ==
    [index |-> [name |-> "Timestamp", values |-> converted],
     cols  |-> [t.cols EXCEPT !["Timestamp"] = converted]]

\* set_index(...) without inplace=True: only the conversion reaches `data`
SetIndexNotInPlace(t, converted) == [t EXCEPT !.cols["Timestamp"] = converted]

\* data["Timestamp"] = converted; data.set_index("Timestamp", inplace=True)
SetIndexTimestamp(t, converted) ==
    [index |-> [name |-> "Timestamp", values |-> converted],
     cols  |-> [c \in Columns(t) \ {"Timestamp"} |-> t.cols[c]]]

\* series.clip(upper=0)
ClipUpper(s) == [i \in 1..Len(s) |-> IF s[i].n > 0 THEN Num(0) ELSE s[i]]

\* series.clip(lower=0)
Clip(s) == [i \in 1..Len(s) |-> IF s[i].n < 0 THEN Num(0) ELSE s[i]]

\* data[col] = data[col].clip(lower=0)
ClipColumn(t, col) == [t EXCEPT !.cols[col] = Clip(t.cols[col])]

RECURSIVE SumOver(_, _)
SumOver(s, rows) ==
    IF rows = {} THEN 0
    ELSE LET i == CHOOSE r \in rows : TRUE
         IN  s[i].n + SumOver(s, rows \ {i})

\* a mean per row label instead of per value of `by`
GroupByRowMean(t, by, cols) ==
    [k \in {t.index.values[i] : i \in 1..NRows(t)} |->
        LET rows == {i \in 1..NRows(t) : t.index.values[i] = k}
        IN  [c \in cols |-> <<SumOver(t.cols[c], rows), Cardinality(rows)>>]]

\* data.groupby(by)[cols].mean(): one row per distinct value of `by`, each
\* mean kept exact as <<sum, count>>
GroupByMean(t, by, cols) ==
    LET keys == {t.cols[by][i] : i \in 1..NRows(t)}
        rowsOf(k) == {i \in 1..NRows(t) : t.cols[by][i] = k}
    IN  [k \in keys |-> [c \in cols |-> <<SumOver(t.cols[c], rowsOf(k)), Cardinality(rowsOf(k))>>]]

-----------------------------------------------------------------------------
(* The dataset registry and the loader (lines 8-34) *)

\* dataset names, as the pieces between which ' ' stands
Benin == <<"Benin-Malanville">>
Sierra == <<"Sierra", " ", "Leone-Bumbuna">>
Togo == <<"Togo-Dapaong_QC">>

DatasetNames == {Benin, Sierra, Togo}

\* the links, as str.split('/') cuts them
drive_links ==
    [n \in DatasetNames |->
        <<"https:", "", "drive.google.com", "file", "d",
          CASE n = Benin  -> "1UUQLPW5uPlTBHn4ydYCVn59RfF5a0fOl"
            [] n = Sierra -> "1LU2uzALN26Uj4b4Ez7FT9o2whMrkctW1"
            [] n = Togo   -> "1KJLvtnlPzv7Ov_Ve_zVeVhBmrNrFK9Fc",
          IF n = Benin THEN "view?usp=drive_link" ELSE "view?usp=sharing">>]

\* drive_url.split('/')[-2]
FileId(drive_url) == drive_url[Len(drive_url) - 1]

\* f"{dataset_name.replace(' ', '_')}.csv"
Filename(name) == [i \in 1..Len(name) |-> IF name[i] = " " THEN "_" ELSE name[i]] \o <<".csv">>

\* the arguments of the memoized call, which are its cache key
CacheKey(name) == <<drive_links[name], Filename(name)>>

CacheKeys == {CacheKey(n) : n \in DatasetNames}

NoEntry == [hit |-> FALSE]

\* what the try block of the loader meets
Outcomes == {"ok", "network_error", "malformed_file", "parse_error"}

\* an element on the page; `rows` holds the rows of a displayed group table
Element(section, kind) == [section |-> section, kind |-> kind, rows |-> <<>>]

NoRender == <<>>

NoSelection == "(none)"

\* @st.cache_data (line 9): the value a call returns, and the st elements it
\* emitted, are stored under the call's arguments, whether the body took the
\* try branch or the except branch
MemoizeSuccessOnly(c, key, r) ==
    IF r.messages = <<>>
    THEN [c EXCEPT ![key] = [hit |-> TRUE, value |-> r.value, messages |-> r.messages]]
    ELSE c

Memoize(c, key, r) ==
    [c EXCEPT ![key] = [hit |-> TRUE, value |-> r.value, messages |-> r.messages]]

\* @st.cache_data (line 9): a caller gets a copy of the stored value, so an
\* in-place write to `data` leaves the store as it was
CacheAliased(c, key, written) == [c EXCEPT ![key].value = written]

CacheAfterWrite(c, key, written) == c

\* except Exception (line 15): which failures of the try block the handler takes
CatchesNetworkOnly(outcome) == outcome = "network_error"

Catches(outcome) == outcome \in {"network_error", "malformed_file", "parse_error"}

\* the body of download_and_load_data (lines 11-17) on a call that meets `outcome`,
\* `file` being what pd.read_csv makes of the downloaded file
download_and_load_data(drive_url, filename, outcome, file) ==
    IF outcome = "ok"
    THEN [raised |-> FALSE, value |-> file, messages |-> <<>>]
    ELSE IF Catches(outcome)
    THEN [raised |-> FALSE, value |-> EmptyFrame,
          messages |-> <<Element("Error loading dataset: " \o outcome, "error")>>]
    ELSE [raised |-> TRUE, value |-> EmptyFrame, messages |-> <<>>]

-----------------------------------------------------------------------------
(* The CSV files the model draws from *)

ExpectedColumns == {"Timestamp", "GHI", "ModA", "ModB", "Cleaning", "WD", "WS"}

DateTexts == <<"2021-08-09", "2021-08-10", "2021-08-11", "2021-08-12">>

\* the cell of column c in row i: text that is no number and no date for the
\* columns in `text`, else two readings a day with values below, at and above 0
Cell(c, i, text) ==
    IF c \in text THEN Str("x")
    ELSE IF c = "Timestamp" THEN Str(DateTexts[(((i - 1) \div 2) % Len(DateTexts)) + 1])
    ELSE IF c = "Cleaning" THEN Num(i % 2)
    ELSE IF c \in {"GHI", "ModB", "WS"} THEN Num((i % 3) - 1)
    ELSE Num(((i + 1) % 3) - 1)

MakeTable(present, text, n) ==
    [index |-> RangeIndex(n),
     cols  |-> [c \in present |-> [i \in 1..n |-> Cell(c, i, text)]]]

\* every non-empty set of the expected columns, with at most one of them text,
\* and from no row (a header-only file) to MaxRows rows
SchemaTables ==
    {MakeTable(present, text, n) :
        present \in (SUBSET ExpectedColumns) \ {{}},
        text \in {{}} \cup {{c} : c \in ExpectedColumns},
        n \in 0..MaxRows}

\* all expected columns, with every choice of ModA and Cleaning values
ValueTables ==
    {[index |-> RangeIndex(MaxRows),
      cols  |-> [c \in ExpectedColumns |->
                    IF c = "ModA" THEN a
                    ELSE IF c = "Cleaning" THEN k
                    ELSE [i \in 1..MaxRows |-> Cell(c, i, {})]]] :
        a \in [1..MaxRows -> {Num(-1), Num(0), Num(1)}],
        k \in [1..MaxRows -> {Num(0), Num(1)}]}

Tables == SchemaTables \cup ValueTables

\* the files the three links may serve in a session
RemoteTables ==
    {MakeTable(ExpectedColumns, {}, MaxRows),
     MakeTable({"GHI", "WD"}, {}, 1),
     MakeTable({"Timestamp", "GHI", "Cleaning"}, {"Timestamp"}, 1),
     MakeTable({"Timestamp", "GHI"}, {}, 0)}

-----------------------------------------------------------------------------
(* The script (lines 26-126), one action per section *)

FileIds == {FileId(drive_links[n]) : n \in DatasetNames}

Emit(elements) == out' = out \o elements

\* the page as its sections and kinds of element, the optional raw-data dump left out
Page(elements) ==
    LET kept == SelectSeq(elements, LAMBDA e : e.section # "Raw Data")
    IN  [i \in 1..Len(kept) |-> <<kept[i].section, kept[i].kind>>]

\* the run is over (it reached the last line, or an exception left the script)
Finish(elements, at) ==
    /\ pc' = at
    /\ out' = elements
    /\ first_render' =
          IF first_render[dataset_name] = NoRender
          THEN [first_render EXCEPT ![dataset_name] = Page(elements)]
          ELSE first_render

\* an exception no handler takes: Streamlit shows it and the run stops there
Uncaught(section) == Finish(out \o <<Element(section, "header"), Element(section, "exception")>>, "crashed")

\* lines 28-34: the call of the memoized loader
Load ==
    /\ pc = "load"
    /\ LET key == CacheKey(dataset_name)
           id  == FileId(key[1])
       IN  IF cache[key].hit
           THEN /\ data' = cache[key].value
                /\ out' = cache[key].messages
                /\ pc' = "title"
                /\ UNCHANGED <<cache, downloads, first_render>>
           ELSE /\ downloads[id] < MaxDownloads
                /\ \E outcome \in Outcomes, file \in RemoteTables :
                      LET r == download_and_load_data(key[1], key[2], outcome, file)
                      IN  /\ downloads' = [downloads EXCEPT ![id] = @ + 1]
                          /\ IF r.raised
                             THEN /\ Finish(<<Element("Dataset Loader", "exception")>>, "crashed")
                                  /\ UNCHANGED <<cache, data>>
                             ELSE /\ cache' = Memoize(cache, key, r)
                                  /\ data' = r.value
                                  /\ out' = r.messages
                                  /\ pc' = "title"
                                  /\ UNCHANGED first_render
    /\ UNCHANGED <<dataset_name, show_raw, bubble_size, pandas>>

\* lines 36-41: the title and the optional raw data
Title ==
    /\ pc = "title"
    /\ Emit(<<Element("Title", "title")>>
            \o IF show_raw THEN <<Element("Raw Data", "table")>> ELSE <<>>)
    /\ pc' = "summary"
    /\ UNCHANGED <<cache, downloads, dataset_name, show_raw, data, bubble_size, first_render, pandas>>

\* lines 43-48
SummaryStatistics ==
    /\ pc = "summary"
    /\ Emit(<<Element("Summary Statistics", "header"),
              IF ~IsEmpty(data)
              THEN Element("Summary Statistics", "table")
              ELSE Element("Summary Statistics", "warning")>>)
    /\ pc' = "missing"
    /\ UNCHANGED <<cache, downloads, dataset_name, show_raw, data, bubble_size, first_render, pandas>>

\* lines 50-54
MissingValues ==
    /\ pc = "missing"
    /\ Emit(<<Element("Missing Values", "header")>>
            \o IF ~IsEmpty(data) THEN <<Element("Missing Values", "table")>> ELSE <<>>)
    /\ pc' = "correlation"
    /\ UNCHANGED <<cache, downloads, dataset_name, show_raw, data, bubble_size, first_render, pandas>>

\* lines 56-66; numeric_data is empty when it has no column
CorrelationHeatmap ==
    /\ pc = "correlation"
    /\ Emit(<<Element("Correlation Heatmap", "header")>>
            \o IF ~IsEmpty(data)
               THEN IF NumericColumns(data) # {}
                    THEN <<Element("Correlation Heatmap", "chart")>>
                    ELSE <<Element("Correlation Heatmap", "warning")>>
               ELSE <<>>)
    /\ pc' = "timeseries"
    /\ UNCHANGED <<cache, downloads, dataset_name, show_raw, data, bubble_size, first_render, pandas>>

\* lines 68-82.  The conversion and the re-indexing write to `data` in place;
\* a failure inside the try block is reported by the handler of line 81.  A GHI
\* column that is not numeric fails in the mean or, without rows, in the plot.
TimeSeriesAnalysis ==
    /\ pc = "timeseries"
    /\ IF "Timestamp" \in Columns(data)
       THEN IF ToDatetimeRaises(data.cols["Timestamp"])
            THEN /\ data' = data
                 /\ Emit(<<Element("Time Series Analysis", "header"),
                           Element("Time Series Analysis", "error")>>)
            ELSE /\ data' = SetIndexTimestamp(data, ToDatetime(data.cols["Timestamp"]))
                 /\ Emit(<<Element("Time Series Analysis", "header"),
                           IF "GHI" \in Columns(data')
                           THEN IF IsNumericSeries(data'.cols["GHI"])
                                THEN Element("Time Series Analysis", "chart")
                                ELSE Element("Time Series Analysis", "error")
                           ELSE Element("Time Series Analysis", "warning")>>)
       ELSE /\ data' = data
            /\ Emit(<<>>)
    /\ cache' = CacheAfterWrite(cache, CacheKey(dataset_name), data')
    /\ pc' = "distribution"
    /\ UNCHANGED <<downloads, dataset_name, show_raw, bubble_size, first_render, pandas>>

\* lines 84-92
DistributionPlots ==
    /\ pc = "distribution"
    /\ IF NumericColumns(data) # {}
       THEN \E key_variable \in NumericColumns(data) :
               Emit(<<Element("Distribution of Key Variables", "header"),
                      Element("Distribution of Key Variables", "chart")>>)
       ELSE Emit(<<Element("Distribution of Key Variables", "header"),
                   Element("Distribution of Key Variables", "warning")>>)
    /\ pc' = "wind"
    /\ UNCHANGED <<cache, downloads, dataset_name, show_raw, data, bubble_size, first_render, pandas>>

\* line 95, with `or` for `and`
WindGateEither(t) == "WD" \in Columns(t) \/ "WS" \in Columns(t)

\* line 95
WindGate(t) == "WD" \in Columns(t) /\ "WS" \in Columns(t)

\* lines 94-101
WindAnalysis ==
    /\ pc = "wind"
    /\ Emit(IF WindGate(data)
            THEN <<Element("Wind Analysis", "header"), Element("Wind Analysis", "chart")>>
            ELSE <<>>)
    /\ pc' = "cleaning"
    /\ UNCHANGED <<cache, downloads, dataset_name, show_raw, data, bubble_size, first_render, pandas>>

\* lines 103-107.  data.groupby("Cleaning")[["ModA", "ModB"]] raises KeyError
\* when one of the two is no column; the mean of a column that is not numeric
\* raises TypeError in pandas 2 and drops the column in pandas 1.
CleaningImpact ==
    /\ pc = "cleaning"
    /\ IF "Cleaning" \in Columns(data)
       THEN LET section == "Impact of Cleaning on Sensor Measurements"
                numeric == {"ModA", "ModB"} \cap NumericColumns(data)
            IN  IF ~({"ModA", "ModB"} \subseteq Columns(data))
                   \/ (numeric # {"ModA", "ModB"} /\ pandas = 2)
                THEN Uncaught(section)
                ELSE /\ Emit(<<Element(section, "header"),
                              [Element(section, "table") EXCEPT
                                  !.rows = GroupByMean(data, "Cleaning", numeric)]>>)
                     /\ pc' = "bubble"
                     /\ UNCHANGED first_render
       ELSE /\ Emit(<<>>)
            /\ pc' = "bubble"
            /\ UNCHANGED first_render
    /\ UNCHANGED <<cache, downloads, dataset_name, show_raw, data, bubble_size, pandas>>

\* lines 109-126.  A selectbox without options returns None, and data[None]
\* raises KeyError at line 116.
BubbleChartAnalysis ==
    /\ pc = "bubble"
    /\ IF NumericColumns(data) = {}
       THEN /\ Uncaught("Bubble Chart Analysis")
            /\ UNCHANGED <<cache, data, bubble_size>>
       ELSE \E bubble_x \in NumericColumns(data), bubble_y \in NumericColumns(data),
               size \in NumericColumns(data) :
               /\ bubble_size' = size
               /\ data' = ClipColumn(data, size)
               /\ cache' = CacheAfterWrite(cache, CacheKey(dataset_name), data')
               /\ Finish(out \o <<Element("Bubble Chart Analysis", "header"),
                                  Element("Bubble Chart Analysis", "chart")>>, "done")
    /\ UNCHANGED <<downloads, dataset_name, show_raw, pandas>>

\* a UI interaction after a run: the script runs again from the top in a fresh
\* namespace, with the widgets' new values
Rerun ==
    /\ pc \in {"done", "crashed"}
    /\ \E name \in DatasetNames, raw \in BOOLEAN :
          /\ dataset_name' = name
          /\ show_raw' = raw
    /\ data' = EmptyFrame
    /\ bubble_size' = NoSelection
    /\ out' = <<>>
    /\ pc' = "load"
    /\ UNCHANGED <<cache, downloads, first_render, pandas>>

-----------------------------------------------------------------------------
(* Specifications *)

\* the first run of a session: nothing cached, the selectbox on its first option
Init ==
    /\ cache = [k \in CacheKeys |-> NoEntry]
    /\ downloads = [id \in FileIds |-> 0]
    /\ dataset_name = Benin
    /\ show_raw = FALSE
    /\ data = EmptyFrame
    /\ bubble_size = NoSelection
    /\ out = <<>>
    /\ pc = "load"
    /\ first_render = [n \in DatasetNames |-> NoRender]
    /\ pandas \in {1, 2}

Render ==
    \/ Title
    \/ SummaryStatistics
    \/ MissingValues
    \/ CorrelationHeatmap
    \/ TimeSeriesAnalysis
    \/ DistributionPlots
    \/ WindAnalysis
    \/ CleaningImpact
    \/ BubbleChartAnalysis

Next == Load \/ Render \/ Rerun

Spec == Init /\ [][Next]_vars

\* one run over any table of Tables, taken up right after the loader returned
\* it (or returned the empty frame, having reported the error)
InitRender ==
    /\ \E r \in {download_and_load_data(drive_links[Benin], Filename(Benin), "ok", file) : file \in Tables}
              \cup {download_and_load_data(drive_links[Benin], Filename(Benin), o, EmptyFrame) :
                        o \in Outcomes \ {"ok"}} :
          /\ ~r.raised
          /\ cache = Memoize([k \in CacheKeys |-> NoEntry], CacheKey(Benin), r)
          /\ data = r.value
          /\ out = r.messages
    /\ downloads = [id \in FileIds |-> IF id = FileId(drive_links[Benin]) THEN 1 ELSE 0]
    /\ dataset_name = Benin
    /\ show_raw \in BOOLEAN
    /\ bubble_size = NoSelection
    /\ pc = "title"
    /\ first_render = [n \in DatasetNames |-> NoRender]
    /\ pandas \in {1, 2}

SpecRender == InitRender /\ [][Render]_vars

-----------------------------------------------------------------------------
(* Vocabulary of the properties *)

\* the table as the loader returned it to the current run
Loaded == cache[CacheKey(dataset_name)].value

HasElement(section, kind) ==
    \E i \in 1..Len(out) : out[i].section = section /\ out[i].kind = kind

HasSection(section) == \E i \in 1..Len(out) : out[i].section = section

SectionOrder ==
    <<"Summary Statistics", "Missing Values", "Correlation Heatmap", "Time Series Analysis",
      "Distribution of Key Variables", "Wind Analysis",
      "Impact of Cleaning on Sensor Measurements", "Bubble Chart Analysis">>

\* the place of a section in the page; what precedes the sections has place 0
Rank(section) ==
    IF \E k \in 1..Len(SectionOrder) : SectionOrder[k] = section
    THEN CHOOSE k \in 1..Len(SectionOrder) : SectionOrder[k] = section
    ELSE 0

\* the positions of a run at which a section is about to read `data`
AtSection ==
    {"summary", "missing", "correlation", "timeseries", "distribution", "wind", "cleaning", "bubble"}

AfterTimeSeries == {"distribution", "wind", "cleaning", "bubble"}

\* a table with all seven expected columns, dates that parse and numbers elsewhere
FullValid(t) ==
    /\ Columns(t) = ExpectedColumns
    /\ NRows(t) > 0
    /\ ~ToDatetimeRaises(t.cols["Timestamp"])
    /\ \A c \in ExpectedColumns \ {"Timestamp"} : IsNumericSeries(t.cols[c])

-----------------------------------------------------------------------------
(* C1 *)

\* C1: whatever the download and the parse meet, for each of the three dataset
\* names, no exception leaves download_and_load_data: the call returns the
\* parsed table, or the empty frame together with one reported error.
C1_LoaderNeverRaises ==
    /\ ~HasElement("Dataset Loader", "exception")
    /\ pc = "title" =>
          \/ data \in RemoteTables /\ out = <<>>
          \/ data = EmptyFrame /\ Len(out) = 1 /\ out[1].kind = "error"

\* the loader has returned the empty frame for the third dataset, after a parse error
C1_Witness ==
    /\ pc = "title"
    /\ dataset_name = Togo
    /\ data = EmptyFrame
    /\ out = <<Element("Error loading dataset: parse_error", "error")>>

-----------------------------------------------------------------------------
(* C2 *)

\* C2: no failure is fatal: for every loaded table, the empty frame of a
\* failed load and a table without numeric columns included, a run takes every
\* section from Summary Statistics to Bubble Chart Analysis to its end and no
\* exception leaves the script.
C2_NoFailureIsFatal == \A i \in 1..Len(out) : out[i].kind # "exception"

-----------------------------------------------------------------------------
(* C3 *)

\* C3: the loader is memoized per (dataset location, filename): at most one
\* download per dataset, a dataset selected again is served from the store
\* without a download, failed loads included, with the contents of its first
\* load, and a stored entry never changes.
C3_LoaderMemoized ==
    /\ [](\A n \in DatasetNames : downloads[FileId(drive_links[n])] <= 1)
    /\ [][/\ \A k \in CacheKeys : cache[k].hit => cache'[k] = cache[k]
          /\ (pc = "load" /\ cache[CacheKey(dataset_name)].hit) =>
                /\ downloads' = downloads
                /\ data' = cache[CacheKey(dataset_name)].value
                /\ out' = cache[CacheKey(dataset_name)].messages]_vars

\* a dataset whose load failed is selected again and served from the store
C3_Witness ==
    /\ pc = "title"
    /\ first_render[dataset_name] # NoRender
    /\ data = EmptyFrame
    /\ downloads[FileId(drive_links[dataset_name])] = 1

-----------------------------------------------------------------------------
(* C4 *)

\* C4: a renderer that needs columns checks for all of them before it reads:
\* with Timestamp or GHI absent (time series), WD or WS absent (wind), or
\* Cleaning, ModA or ModB absent (cleaning impact) it warns and skips its
\* section instead of failing, and the run goes on to the next section.  The
\* formula states the part "instead of failing": from a section whose column
\* is absent the run moves on to the next section.
C4_MissingColumnNeverFails ==
    [][/\ (pc = "timeseries" /\ ~({"Timestamp", "GHI"} \subseteq Columns(data)))
             => pc' = "distribution"
       /\ (pc = "wind" /\ ~({"WD", "WS"} \subseteq Columns(data)))
             => pc' = "cleaning"
       /\ (pc = "cleaning" /\ ~({"Cleaning", "ModA", "ModB"} \subseteq Columns(data)))
             => pc' = "bubble"]_vars

-----------------------------------------------------------------------------
(* C5 *)

\* C5 as stated: no section before the bubble chart changes the table.
C5_OnlyBubbleWrites ==
    [][(pc \in AtSection \ {"bubble"}) => data' = data]_vars

\* C5 as amended: the summary, missing-values, correlation, distribution, wind
\* and cleaning-impact sections leave the table as it is; the time-series
\* section leaves it as it is when there is no Timestamp column or the
\* conversion fails, and otherwise moves the converted Timestamp column into
\* the index and leaves every other column as it is.
C5_OnlyTimeSeriesAndBubbleWrite ==
    [][/\ (pc \in AtSection \ {"timeseries", "bubble"}) => data' = data
       /\ (pc = "timeseries") =>
             IF "Timestamp" \in Columns(data) /\ ~ToDatetimeRaises(data.cols["Timestamp"])
             THEN /\ data'.index = [name |-> "Timestamp", values |-> ToDatetime(data.cols["Timestamp"])]
                  /\ Columns(data') = Columns(data) \ {"Timestamp"}
                  /\ \A c \in Columns(data') : data'.cols[c] = data.cols[c]
             ELSE data' = data]_vars

\* the sections before the bubble chart have run over a table that was re-indexed
C5_Witness ==
    /\ pc = "bubble"
    /\ data.index.name = "Timestamp"
    /\ Loaded.index.name = "RangeIndex"
    /\ HasElement("Impact of Cleaning on Sensor Measurements", "table")

-----------------------------------------------------------------------------
(* C6 *)

\* C6: when the bubble chart is drawn, every value of the chosen size column
\* is >= 0 afterwards: a negative value has become 0, any other value is as
\* it was, and the index and every other column are as they were.
C6_ClipInvariant ==
    /\ [](pc = "done" =>
            \A i \in 1..NRows(data) : data.cols[bubble_size][i].n >= 0)
    /\ [][(pc = "bubble" /\ pc' = "done") =>
            /\ bubble_size' \in NumericColumns(data)
            /\ data'.index = data.index
            /\ Columns(data') = Columns(data)
            /\ \A c \in Columns(data) \ {bubble_size'} : data'.cols[c] = data.cols[c]
            /\ Len(data'.cols[bubble_size']) = NRows(data)
            /\ \A i \in 1..NRows(data) :
                  data'.cols[bubble_size'][i] =
                     IF data.cols[bubble_size'][i].n < 0 THEN Num(0)
                     ELSE data.cols[bubble_size'][i]]_vars

\* the chart was drawn over a size column that held a negative and a positive value
C6_Witness ==
    /\ pc = "done"
    /\ \E i, j \in 1..NRows(data) :
          /\ Loaded.cols[bubble_size][i].n < 0
          /\ data.cols[bubble_size][i] = Num(0)
          /\ Loaded.cols[bubble_size][j].n > 0
          /\ data.cols[bubble_size][j] = Loaded.cols[bubble_size][j]

-----------------------------------------------------------------------------
(* C7 *)

\* C7: a section gated on optional columns is silent when its gate fails:
\* without a Timestamp column the time-series section puts nothing on the
\* page and the run goes on, and the page holds a Wind Analysis section
\* exactly when the table has both WD and WS (no header, chart, warning or
\* error of that section otherwise).
C7_SilentGates ==
    /\ [](pc \in {"cleaning", "bubble", "done", "crashed"} =>
            /\ HasSection("Wind Analysis") <=> {"WD", "WS"} \subseteq Columns(data)
            /\ HasSection("Wind Analysis") =>
                  /\ HasElement("Wind Analysis", "header")
                  /\ HasElement("Wind Analysis", "chart"))
    /\ []("Timestamp" \notin Columns(Loaded) => ~HasSection("Time Series Analysis"))
    /\ [][(pc = "timeseries" /\ "Timestamp" \notin Columns(data)) =>
             /\ out' = out
             /\ data' = data
             /\ pc' = "distribution"]_vars

\* the wind section was passed in silence by a table that has WD and no WS,
\* and the time-series section by a table without Timestamp
C7_Witness ==
    /\ pc = "cleaning"
    /\ "WD" \in Columns(data)
    /\ "WS" \notin Columns(data)
    /\ "Timestamp" \notin Columns(Loaded)
    /\ ~HasSection("Wind Analysis")
    /\ ~HasSection("Time Series Analysis")
    /\ HasSection("Distribution of Key Variables")

-----------------------------------------------------------------------------
(* C8 *)

\* C8: over a table with the columns Timestamp, GHI, ModA, ModB, Cleaning, WD
\* and WS, dates that parse and numbers elsewhere, a run reaches its end
\* without a warning, an error or an exception, every one of the eight sections
\* has put a table or a chart on the page, and the cleaning-impact table has
\* one row per distinct value of Cleaning.
C8_FullTableRendersAll ==
    FullValid(Loaded) /\ pc \notin {"load", "title"} =>
        /\ pc # "crashed"
        /\ pc # "done" => ENABLED Render
        /\ \A i \in 1..Len(out) : out[i].kind \in {"title", "header", "table", "chart"}
        /\ pc = "done" =>
              \A k \in 1..Len(SectionOrder) :
                 HasElement(SectionOrder[k], "table") \/ HasElement(SectionOrder[k], "chart")
        /\ \A i \in 1..Len(out) :
              (out[i].section = "Impact of Cleaning on Sensor Measurements" /\ out[i].kind = "table") =>
                 Cardinality(DOMAIN out[i].rows)
                    = Cardinality({Loaded.cols["Cleaning"][r] : r \in 1..NRows(Loaded)})

\* a finished run over a full table whose rows share one value of Cleaning
C8_Witness ==
    /\ pc = "done"
    /\ FullValid(Loaded)
    /\ NRows(Loaded) > 1
    /\ \E i \in 1..Len(out) :
          /\ out[i].section = "Impact of Cleaning on Sensor Measurements"
          /\ out[i].kind = "table"
          /\ Cardinality(DOMAIN out[i].rows) = 1

-----------------------------------------------------------------------------
(* C9 *)

\* C9: a run starts from the table the memoized loader returns, not from what
\* the run before wrote into its own table: the table a run is handed is the
\* file as parsed (or the empty frame), under its original index, and a later
\* run of a dataset puts on the page the sections its first run put there, in
\* the same order.
C9_RendersRepeat ==
    /\ pc = "title" => data \in RemoteTables \cup {EmptyFrame}
    /\ first_render[dataset_name] # NoRender /\ pc # "load" =>
          /\ Len(Page(out)) <= Len(first_render[dataset_name])
          /\ Page(out) = SubSeq(first_render[dataset_name], 1, Len(Page(out)))
          /\ pc \in {"done", "crashed"} => Page(out) = first_render[dataset_name]

\* a later run of a dataset with a Timestamp column has drawn the time series again
C9_Witness ==
    /\ pc = "distribution"
    /\ first_render[dataset_name] # NoRender
    /\ HasElement("Time Series Analysis", "chart")
    /\ data.index.name = "Timestamp"

-----------------------------------------------------------------------------
(* C10 *)

\* the sections of the page stand in the order of the script
InScriptOrder ==
    \A i, j \in 1..Len(out) : i < j => Rank(out[i].section) <= Rank(out[j].section)

\* up to and including the start of the bubble chart, every cell of the table
\* is the cell the loader returned: no section reads a clipped value
Unclipped ==
    pc \in AtSection =>
        /\ Columns(data) \subseteq Columns(Loaded)
        /\ \A c \in Columns(data) : data.cols[c] = Loaded.cols[c]

\* C10 as stated: the sections run in the fixed order, the clip is the last
\* write, so no section before the bubble chart reads clipped values, and every
\* section after the time series reads the table re-indexed by Timestamp.
C10_OrderAndReindexed ==
    /\ InScriptOrder
    /\ Unclipped
    /\ pc \in AfterTimeSeries => data.index.name = "Timestamp"

\* C10 as amended: the sections run in the fixed order, the clip is the last
\* write, so no section before the bubble chart reads clipped values, and the
\* sections after the time series read the table re-indexed by Timestamp
\* exactly when the loaded table has a Timestamp column whose values parse as
\* dates; otherwise they read it under its original index.
C10_OrderAndReindexedWhenParsed ==
    /\ InScriptOrder
    /\ Unclipped
    /\ pc \in AfterTimeSeries =>
          IF "Timestamp" \in Columns(Loaded) /\ ~ToDatetimeRaises(Loaded.cols["Timestamp"])
          THEN /\ data.index.name = "Timestamp"
               /\ "Timestamp" \notin Columns(data)
          ELSE data.index = Loaded.index

\* a later run of a dataset that was rendered before stands at the bubble chart
\* with the table re-indexed and a negative value still in a numeric column
C10_Witness ==
    /\ pc = "bubble"
    /\ first_render[dataset_name] # NoRender
    /\ data.index.name = "Timestamp"
    /\ \E c \in NumericColumns(data) : \E i \in 1..NRows(data) : data.cols[c][i].n < 0

====
